---- MODULE Spec2Model ----
(***************************************************************************)
(* Model of the pipeline status channel of the geo_simulator frontend:     *)
(* frontend/src/services/websocket.ts (class WebSocketService), and of its *)
(* two consumers: the component frontend/src/components/PipelineProgress   *)
(* and the hook frontend/src/hooks/usePipeline.ts.                         *)
(*                                                                         *)
(* The service is single threaded: every handler (socket event, timer,     *)
(* public method) runs to completion, so each is one action.  The only     *)
(* place where consumer code runs inside a handler is the forEach loop of  *)
(* handleMessage; that loop is modelled step by step so that calls made by *)
(* a callback (subscribe, unsubscribe, disconnect, ...) interleave with it *)
(* the way they do in the JavaScript run time.                             *)
(***************************************************************************)
EXTENDS Integers, Sequences, FiniteSets, Bags, TLC

(* ------------------------------ bounds -------------------------------- *)
MaxSockets == 2      \* WebSocket objects that may be un-closed at one time
MaxTimers == 1       \* reconnect timers that may be pending at one time
MaxAttempts == 6     \* cap of reconnectAttempts on the unbounded catch path
MaxInvoke == 2       \* callback invocations followed within one dispatch
MaxStages == 4       \* length of the stages array of a PipelineState
MaxHandles == 3      \* closures of subscribe that consumers hold on to
MaxHookStages == 2   \* length of the stages array in the updates of usePipeline
MaxDiffSteps == 130  \* time deltas up to MaxDiffSteps * DiffStep milliseconds

(* ------------------------- program constants -------------------------- *)
maxReconnectAttempts == 5
InitialReconnectDelay == 1000
MaxBackoffDelay == 30000

(* ------------------------- values of the model ------------------------ *)
PipelineIds == {"p1", "p2"}
Callbacks == {"c1", "c2"}
ErrorCallbacks == {"e1", "e2"}
ErrorTexts == {"scrape failed", "timeout"}
PipelineStates == [id : PipelineIds, overallProgress : {100}]
Null == 0            \* this.ws = null
SocketIds == 1..MaxSockets

\* types/pipeline.ts:14  StageStatus
StageStatuses == {"pending", "in-progress", "completed", "error"}

\* the status fields of the stages arrays a PipelineState can carry
StageLists == UNION {[1..n -> StageStatuses] : n \in 0..MaxStages}

\* useState<PipelineState | null>(null): the null state
NoState == [none |-> TRUE]

\* an optional text that is absent
Undefined == "undefined"

\* useState<string | null>(null): the null error
NoError == "null"

\* the hook is not mounted
NoPipeline == "none"

\* types/pipeline.ts:17  a stage as usePipeline reads it: status, and the
\* optional error text, which the model gives to stages in error only
HookStages ==
    [status : StageStatuses \ {"error"}, error : {Undefined}]
        \cup [status : {"error"}, error : ErrorTexts \cup {Undefined}]

HookStageLists == UNION {[1..n -> HookStages] : n \in 0..MaxHookStages}

\* types/pipeline.ts:30  PipelineState, the fields usePipeline reads
HookStates == [id : PipelineIds, stages : HookStageLists]

\* no callback of the hook has run
NoCalls == [kind |-> "none", complete |-> 0, error |-> <<>>, text |-> Undefined,
            wasComplete |-> FALSE]

\* PipelineProgress.tsx:57  the values of timestamp - now the model renders:
\* every multiple of DiffStep, and the millisecond before and after it
DiffStep == 30000

DiffValues == {k * DiffStep + j : k \in (-3)..MaxDiffSteps, j \in {-1, 0, 1}}

Messages ==
    [type : {"pipeline_update"}, data : PipelineStates]
        \cup [type : {"pipeline_error"}, pipelineId : PipelineIds, error : ErrorTexts]
        \cup [type : {"unknown"}]
        \cup [type : {"malformed"}]

VARIABLES
    baseUrlValid,        \* whether new WebSocket(url) accepts the configured URL
    ws,                  \* this.ws: Null or a socket id
    readyState,          \* readyState of every WebSocket object the service made
    reconnectAttempts,   \* this.reconnectAttempts
    reconnectDelay,      \* this.reconnectDelay
    isConnecting,        \* this.isConnecting
    shouldReconnect,     \* this.shouldReconnect
    timers,              \* bag of the delays of the pending setTimeout calls
    subscribers,         \* this.subscribers: Map pipelineId -> Set (insertion order)
    errorSubscribers,    \* this.errorSubscribers: Set (insertion order)
    serverSubs,          \* per open socket: pipeline ids the peer holds as subscribed
    out,                 \* control frames written by the last step
    pc,                  \* position of the running message handler
    iter,                \* the forEach loop of handleMessage
    invoked,             \* callbacks invoked for the message being handled
    delayLog,            \* delays scheduled since construction or the last open
    abandoned,           \* onclose has given up reconnecting; no connect() call since
    pipelineState,       \* PipelineProgress: the pipelineState of useState
    overallStatus,       \* PipelineProgress: overallStatus of the last render
    onCompleteCalls,     \* PipelineProgress: onComplete calls made for the last update
    diffMs,              \* PipelineProgress: timestamp - now at the last render
    estimatedText,       \* PipelineProgress: formatEstimatedCompletion at that render
    handles,             \* closures returned by subscribe that consumers still hold
    hookPipelineId,      \* usePipeline: the pipelineId its effect last ran with
    hookPipelineState,   \* usePipeline: pipelineState of useState
    hookError,           \* usePipeline: error of useState
    hookIsConnected,     \* usePipeline: isConnected of useState
    hookErrorId,         \* pipelineId of the hook at the last setError
    hookCalls            \* what the last callback of the hook did for its message

chan == <<baseUrlValid, ws, readyState, reconnectAttempts, reconnectDelay,
          isConnecting, shouldReconnect, timers, delayLog, abandoned>>
reg == <<subscribers, errorSubscribers>>
disp == <<pc, iter, invoked>>
ui == <<pipelineState, overallStatus, onCompleteCalls, diffMs, estimatedText>>
hook == <<hookPipelineId, hookPipelineState, hookError, hookIsConnected,
          hookErrorId, hookCalls>>
consumers == <<ui, hook, handles>>
vars == <<chan, reg, disp, serverSubs, out, consumers>>

(* ------------------------------ helpers ------------------------------- *)
Min(a, b) == IF a < b THEN a ELSE b

Range(s) == {s[i] : i \in 1..Len(s)}

\* A JavaScript Set keeps its elements in insertion order; a Set is modelled
\* by the sequence of its elements.  forEach keeps a cursor into that list:
\* it visits the elements behind the cursor, those added meanwhile included,
\* and an element deleted in front of the cursor moves the cursor back by one
\* (the run time keeps an empty slot there, which no one can observe).

\* position of c in the list s, 0 when absent
IndexOf(s, c) ==
    IF c \in Range(s) THEN CHOOSE i \in 1..Len(s) : s[i] = c ELSE 0

\* Set.prototype.add
SetAdd(s, c) == IF c \in Range(s) THEN s ELSE Append(s, c)

\* Set.prototype.delete
SetDelete(s, c) == LET keep(e) == e # c IN SelectSeq(s, keep)

\* the cursor of a forEach over s once c has been deleted from s
CursorAfterDelete(s, c, idx) ==
    IF IndexOf(s, c) \in 1..idx THEN idx - 1 ELSE idx

\* a Map without entries
EmptyMap == [p \in {} |-> <<>>]

\* the forEach loop when no message is being handled.  known is a record for
\* the properties: the callbacks that were in the Set at receipt or were added
\* to it since
NoIter == [kind |-> "none", pid |-> "p1", attached |-> FALSE, orphan |-> <<>>,
           idx |-> 0, arg |-> [none |-> TRUE], threw |-> FALSE, known |-> {}]

\* is the forEach loop of handleMessage running
Iterating == pc \in {"forEach", "callback"}

\* is the Set stored in the Map under p the one forEach is walking
IteratedUpdateSet(p) ==
    Iterating /\ iter.kind = "pipeline_update" /\ iter.pid = p /\ iter.attached

IteratedErrorSet == Iterating /\ iter.kind = "pipeline_error"

\* this.ws?.readyState === WebSocket.OPEN
WsOpen == ws # Null /\ readyState[ws] = "OPEN"

isConnected == WsOpen

Live(s) == readyState[s] \in {"CONNECTING", "OPEN"}

FreeSockets == {s \in SocketIds : readyState[s] = "FREE"}

NewSocket == CHOOSE s \in FreeSockets : \A t \in FreeSockets : s <= t

(* ------------------------------- Init --------------------------------- *)
Init ==
    /\ baseUrlValid \in BOOLEAN
    /\ ws = Null
    /\ readyState = [s \in SocketIds |-> "FREE"]
    /\ reconnectAttempts = 0
    /\ reconnectDelay = InitialReconnectDelay
    /\ isConnecting = FALSE
    /\ shouldReconnect = TRUE
    /\ timers = EmptyBag
    /\ subscribers = EmptyMap
    /\ errorSubscribers = <<>>
    /\ serverSubs = [s \in SocketIds |-> {}]
    /\ out = <<>>
    /\ pc = "idle"
    /\ iter = NoIter
    /\ invoked = <<>>
    /\ delayLog = <<>>
    /\ abandoned = FALSE
    /\ pipelineState = NoState
    /\ overallStatus = "pending"
    /\ onCompleteCalls = 0
    /\ diffMs = 0
    /\ estimatedText = "null"
    /\ handles = <<>>
    /\ hookPipelineId = NoPipeline
    /\ hookPipelineState = NoState
    /\ hookError = NoError
    /\ hookIsConnected = FALSE
    /\ hookErrorId = NoPipeline
    /\ hookCalls = NoCalls

(* ----------------------- connect / reconnect -------------------------- *)
\* the exponent taken one too high
BackoffDelayOffByOne(base, n) == Min(base * 2^n, MaxBackoffDelay)

\* websocket.ts:68  Math.min(this.reconnectDelay * Math.pow(2, n - 1), 30000)
BackoffDelay(base, n) == Min(base * 2^(n - 1), MaxBackoffDelay)

\* the delays a reconnect timer can have
DelayValues == {BackoffDelay(InitialReconnectDelay, n) : n \in 1..MaxAttempts}

\* websocket.ts:19  connect() returns at once in these states
ConnectIsNoOp == WsOpen \/ isConnecting

\* websocket.ts:55  the guard of the reconnect in onclose
CloseMayReconnect ==
    shouldReconnect /\ reconnectAttempts < maxReconnectAttempts

\* websocket.ts:55  onclose schedules nothing because the attempts are used up
CloseGivesUp ==
    shouldReconnect /\ reconnectAttempts >= maxReconnectAttempts

\* scheduleReconnect(), run with tm as the bag of the timers pending so far
ScheduleReconnect(tm) ==
    LET n == reconnectAttempts + 1
        delay == BackoffDelay(reconnectDelay, n)
    IN  /\ BagCardinality(tm) < MaxTimers
        /\ reconnectAttempts' = n
        /\ timers' = tm (+) SetToBag({delay})
        /\ delayLog' = Append(delayLog, delay)

\* the body of connect(), run with tm as the bag of the timers pending so far
ConnectBody(tm) ==
    IF ConnectIsNoOp
    THEN /\ timers' = tm
         /\ UNCHANGED <<ws, readyState, isConnecting, reconnectAttempts, delayLog>>
    ELSE IF baseUrlValid
         THEN /\ FreeSockets # {}
              /\ ws' = NewSocket
              /\ readyState' = [readyState EXCEPT ![NewSocket] = "CONNECTING"]
              /\ isConnecting' = TRUE
              /\ timers' = tm
              /\ UNCHANGED <<reconnectAttempts, delayLog>>
         ELSE \* new WebSocket(...) throws: the catch branch
              /\ reconnectAttempts < MaxAttempts
              /\ isConnecting' = FALSE
              /\ ScheduleReconnect(tm)
              /\ UNCHANGED <<ws, readyState>>

\* connect() called by the application (also the call at module load)
Connect ==
    /\ pc \in {"idle", "callback"}
    /\ ConnectBody(timers)
    /\ abandoned' = FALSE
    /\ out' = <<>>
    /\ UNCHANGED <<baseUrlValid, reconnectDelay, shouldReconnect, reg, disp, serverSubs>>
    /\ UNCHANGED consumers

\* the setTimeout callback of scheduleReconnect fires
TimerFire(d) ==
    /\ pc = "idle"
    /\ BagIn(d, timers)
    /\ ConnectBody(timers (-) SetToBag({d}))
    /\ out' = <<>>
    /\ UNCHANGED <<abandoned, baseUrlValid, reconnectDelay, shouldReconnect, reg, disp, serverSubs>>
    /\ UNCHANGED consumers

\* onopen replays a subscribe frame for every entry of the Map
OpenSubscriptionsReplayed(s) == DOMAIN subscribers

\* what the peer of socket s holds as subscribed once onopen has run: onopen
\* writes no frame
OpenSubscriptions(s) == serverSubs[s]

\* onopen leaves the counter as it is
AttemptsAfterOpenKept == reconnectAttempts

\* websocket.ts:32  this.reconnectAttempts = 0
AttemptsAfterOpen == 0

\* ws.onopen
OnOpen(s) ==
    /\ pc = "idle"
    /\ readyState[s] = "CONNECTING"
    /\ readyState' = [readyState EXCEPT ![s] = "OPEN"]
    /\ isConnecting' = FALSE
    /\ reconnectAttempts' = AttemptsAfterOpen
    /\ reconnectDelay' = InitialReconnectDelay
    /\ delayLog' = <<>>
    /\ serverSubs' = [serverSubs EXCEPT ![s] = OpenSubscriptions(s)]
    /\ out' = <<>>
    /\ UNCHANGED <<baseUrlValid, ws, shouldReconnect, timers, abandoned, reg, disp>>
    /\ UNCHANGED consumers

\* ws.onclose of socket s, which the run time has just set to CLOSED
CloseHandler(s) ==
    /\ readyState' = [readyState EXCEPT ![s] = "FREE"]
    /\ serverSubs' = [serverSubs EXCEPT ![s] = {}]
    /\ isConnecting' = FALSE
    /\ ws' = Null
    /\ IF CloseMayReconnect
       THEN ScheduleReconnect(timers)
       ELSE UNCHANGED <<reconnectAttempts, timers, delayLog>>
    /\ abandoned' = (abandoned \/ CloseGivesUp)
    /\ out' = <<>>
    /\ UNCHANGED <<baseUrlValid, reconnectDelay, shouldReconnect, reg, disp>>
    /\ UNCHANGED consumers

\* the connection of socket s fails: the run time fires error, then close, in
\* one task; onerror only clears isConnecting, which onclose clears as well
SocketFail(s) ==
    /\ pc = "idle"
    /\ readyState[s] # "FREE"
    /\ CloseHandler(s)

\* the connection of socket s ends without an error event
OnClose(s) ==
    /\ pc = "idle"
    /\ readyState[s] \in {"OPEN", "CLOSING"}
    /\ CloseHandler(s)

\* the peer starts the closing handshake: readyState becomes CLOSING, the
\* close event follows later
ClosingHandshake(s) ==
    /\ pc = "idle"
    /\ readyState[s] = "OPEN"
    /\ readyState' = [readyState EXCEPT ![s] = "CLOSING"]
    /\ serverSubs' = [serverSubs EXCEPT ![s] = {}]
    /\ out' = <<>>
    /\ UNCHANGED <<baseUrlValid, ws, reconnectAttempts, reconnectDelay, isConnecting,
                   shouldReconnect, timers, delayLog, abandoned, reg, disp>>
    /\ UNCHANGED consumers

\* WebSocket.prototype.close()
SocketClosed(rs, s) ==
    IF rs[s] \in {"CONNECTING", "OPEN"} THEN [rs EXCEPT ![s] = "CLOSING"] ELSE rs

\* disconnect()
Disconnect ==
    /\ pc \in {"idle", "callback"}
    /\ shouldReconnect' = FALSE
    /\ IF ws # Null
       THEN /\ readyState' = SocketClosed(readyState, ws)
            /\ serverSubs' = [serverSubs EXCEPT ![ws] = {}]
            /\ ws' = Null
       ELSE UNCHANGED <<ws, readyState, serverSubs>>
    /\ subscribers' = EmptyMap
    /\ errorSubscribers' = <<>>
    /\ iter' = IF Iterating /\ iter.kind = "pipeline_update" /\ iter.attached
               THEN [iter EXCEPT !.attached = FALSE, !.orphan = subscribers[iter.pid]]
               ELSE IF IteratedErrorSet THEN [iter EXCEPT !.idx = 0]
               ELSE iter
    /\ out' = <<>>
    /\ UNCHANGED <<baseUrlValid, reconnectAttempts, reconnectDelay, isConnecting,
                   timers, delayLog, abandoned, pc, invoked>>
    /\ UNCHANGED consumers

(* ------------------------ subscription registry ----------------------- *)
Frame(t, p) == [type |-> t, pipelineId |-> p]

\* the guard tests for a socket only, not for its readyState
SendAllowedAnySocket == ws # Null

\* websocket.ts:103 and :119  the guard of ws.send
SendAllowed == WsOpen

\* the frames a guarded ws.send writes
Send(t, p) == IF SendAllowed THEN <<Frame(t, p)>> ELSE <<>>

\* what the peer's table of socket s holds once it has read the frames fs
ServerApply(tbl, fs) ==
    IF fs = <<>> THEN tbl
    ELSE IF fs[1].type = "subscribe"
         THEN tbl \cup {fs[1].pipelineId}
         ELSE tbl \ {fs[1].pipelineId}

Written(fs) ==
    /\ out' = fs
    /\ serverSubs' = IF fs = <<>> THEN serverSubs
                     ELSE [serverSubs EXCEPT ![ws] = ServerApply(serverSubs[ws], fs)]

\* subscribe makes the entry but does not add the callback
SubscribeAddNothing(p, c) ==
    IF p \in DOMAIN subscribers THEN subscribers[p] ELSE <<>>

\* the Set the Map holds for p after subscribe(p, c) has added c to it
SubscribeAdd(p, c) ==
    SetAdd(IF p \in DOMAIN subscribers THEN subscribers[p] ELSE <<>>, c)

\* subscribe(p, c), as far as the service goes
SubscribeCall(p, c) ==
    /\ pc \in {"idle", "callback"}
    /\ subscribers' = [q \in DOMAIN subscribers \cup {p} |->
                          IF q = p THEN SubscribeAdd(p, c) ELSE subscribers[q]]
    /\ Written(Send("subscribe", p))
    /\ iter' = IF IteratedUpdateSet(p)
               THEN [iter EXCEPT !.known = @ \cup {c}]
               ELSE iter
    /\ UNCHANGED <<chan, errorSubscribers, pc, invoked>>

\* subscribe(p, c), called by a consumer that the model does not follow
Subscribe(p, c) == SubscribeCall(p, c) /\ UNCHANGED consumers

\* the closure leaves the Set as it is
UnsubscribeDeleteNothing(p, c) == subscribers[p]

\* the Set of p after the closure of subscribe(p, c) has deleted c from it
UnsubscribeDelete(p, c) == SetDelete(subscribers[p], c)

\* the entry is dropped, and the frame written, on every call of the closure
UnsubscribeDropsAlways(p, c) == TRUE

\* the closure deletes the callback and keeps the entry, empty or not
UnsubscribeDropsNever(p, c) == FALSE

\* websocket.ts:115  the closure of subscribe(p, c) drops the entry of p
UnsubscribeDrops(p, c) == Len(UnsubscribeDelete(p, c)) = 0

\* the closure returned by subscribe(p, c) is called.  The closure holds p and
\* c only; while c is not in the Set of p the call changes nothing, so the
\* action needs no record of which closures subscribe has handed out
UnsubscribeCall(p, c) ==
    /\ pc \in {"idle", "callback"}
    /\ IF p \in DOMAIN subscribers
       THEN IF UnsubscribeDrops(p, c)
            THEN /\ subscribers' = [q \in DOMAIN subscribers \ {p} |-> subscribers[q]]
                 /\ iter' = IF IteratedUpdateSet(p)
                            THEN [iter EXCEPT !.attached = FALSE, !.orphan = <<>>,
                                              !.idx = 0]
                            ELSE iter
                 /\ Written(Send("unsubscribe", p))
            ELSE /\ subscribers' = [subscribers EXCEPT ![p] = UnsubscribeDelete(p, c)]
                 /\ iter' = IF IteratedUpdateSet(p)
                            THEN [iter EXCEPT !.idx =
                                     CursorAfterDelete(subscribers[p], c, iter.idx)]
                            ELSE iter
                 /\ Written(<<>>)
       ELSE /\ Written(<<>>)
            /\ UNCHANGED <<subscribers, iter>>
    /\ UNCHANGED <<chan, errorSubscribers, pc, invoked>>

Unsubscribe(p, c) == UnsubscribeCall(p, c) /\ UNCHANGED consumers

\* websocket.ts:111  the closure subscribe(p, c) returns: it holds p and c.
\* called is a record for the properties: has the closure been called yet
Handle(p, c) == [pid |-> p, cb |-> c, called |-> FALSE]

\* subscribe(p, c) by a consumer that keeps the closure it returns
SubscribeHandle(p, c) ==
    /\ pc = "idle"
    /\ Len(handles) < MaxHandles
    /\ SubscribeCall(p, c)
    /\ handles' = Append(handles, Handle(p, c))
    /\ UNCHANGED <<ui, hook>>

\* the consumer calls the closure it holds as handles[i], for the first time
\* or once more
CallHandle(i) ==
    /\ pc = "idle"
    /\ i \in DOMAIN handles
    /\ UnsubscribeCall(handles[i].pid, handles[i].cb)
    /\ handles' = [handles EXCEPT ![i].called = TRUE]
    /\ UNCHANGED <<ui, hook>>

\* onError(e)
OnError(e) ==
    /\ pc \in {"idle", "callback"}
    /\ errorSubscribers' = SetAdd(errorSubscribers, e)
    /\ iter' = IF IteratedErrorSet
               THEN [iter EXCEPT !.known = @ \cup {e}]
               ELSE iter
    /\ out' = <<>>
    /\ UNCHANGED <<chan, subscribers, pc, invoked, serverSubs>>
    /\ UNCHANGED consumers

\* the closure returned by onError(e) is called
UnsubscribeError(e) ==
    /\ pc \in {"idle", "callback"}
    /\ errorSubscribers' = SetDelete(errorSubscribers, e)
    /\ iter' = IF IteratedErrorSet
               THEN [iter EXCEPT !.idx = CursorAfterDelete(errorSubscribers, e, iter.idx)]
               ELSE iter
    /\ out' = <<>>
    /\ UNCHANGED <<chan, subscribers, pc, invoked, serverSubs>>
    /\ UNCHANGED consumers

(* ----------------------------- dispatch ------------------------------- *)
\* websocket.ts:80  this.subscribers.get(message.data.id)
HasCallbacksFor(id) == id \in DOMAIN subscribers

\* the update goes to whichever entry the Map has, whatever its key
DispatchKeyAnyEntry(m) ==
    IF DOMAIN subscribers = {} THEN m.data.id
    ELSE CHOOSE p \in DOMAIN subscribers : \A q \in DOMAIN subscribers : p = q \/ p # m.data.id

\* websocket.ts:80  the key of the lookup: message.data.id
DispatchKey(m) == m.data.id

\* websocket.ts:86  every pipeline_error message reaches the forEach of line 87
ErrorIsDispatched(m) == TRUE

\* the data list of the Set that forEach is walking
IterData ==
    IF iter.kind = "pipeline_error" THEN errorSubscribers
    ELSE IF iter.attached THEN subscribers[iter.pid]
    ELSE iter.orphan

\* has forEach an element left to visit
HasNext == iter.idx < Len(IterData)

NextSlot == iter.idx + 1

\* a payload that JSON.parse rejects is handed to the error callbacks
MessageBranchSurfacesParseFailure(m) ==
    IF m.type = "malformed" THEN "pipeline_error" ELSE m.type

\* websocket.ts:38 and :78  the branch that handles payload m: the case of the
\* switch for its type, or the catch of onmessage when JSON.parse throws
MessageBranch(m) == m.type

\* websocket.ts:87  message.error
ErrorTextOf(m) == IF "error" \in DOMAIN m THEN m.error ELSE "undefined"

\* ws.onmessage of socket s receives m: JSON.parse, then handleMessage up to
\* the start of the forEach loop
OnMessage(s, m) ==
    /\ pc = "idle"
    /\ readyState[s] = "OPEN"
    /\ invoked' = <<>>
    /\ CASE MessageBranch(m) = "pipeline_update" ->
              /\ iter' = [NoIter EXCEPT !.kind = m.type, !.pid = DispatchKey(m),
                                        !.attached = HasCallbacksFor(DispatchKey(m)),
                                        !.arg = m.data,
                                        !.known = IF HasCallbacksFor(DispatchKey(m))
                                                  THEN Range(subscribers[DispatchKey(m)])
                                                  ELSE {}]
              /\ pc' = IF HasCallbacksFor(DispatchKey(m)) THEN "forEach" ELSE "done"
         [] MessageBranch(m) = "pipeline_error" ->
              /\ iter' = [NoIter EXCEPT !.kind = MessageBranch(m),
                                        !.arg = [error |-> ErrorTextOf(m)],
                                        !.known = Range(errorSubscribers)]
              /\ pc' = IF ErrorIsDispatched(m) THEN "forEach" ELSE "done"
         [] OTHER ->
              \* an unknown type (console.warn) or a parse failure (console.error)
              /\ iter' = [NoIter EXCEPT !.kind = m.type]
              /\ pc' = "done"
    /\ out' = <<>>
    /\ UNCHANGED <<chan, reg, serverSubs>>
    /\ UNCHANGED consumers

\* forEach takes the next element and calls it, or ends
ForEachStep ==
    /\ pc = "forEach"
    /\ IF HasNext
       THEN /\ Len(invoked) < MaxInvoke
            /\ invoked' = Append(invoked, [cb |-> IterData[NextSlot], arg |-> iter.arg])
            /\ iter' = [iter EXCEPT !.idx = NextSlot]
            /\ pc' = "callback"
       ELSE /\ pc' = "done"
            /\ UNCHANGED <<iter, invoked>>
    /\ out' = <<>>
    /\ UNCHANGED <<chan, reg, serverSubs>>
    /\ UNCHANGED consumers

\* the callback that forEach called returns
CallbackReturn ==
    /\ pc = "callback"
    /\ pc' = "forEach"
    /\ out' = <<>>
    /\ UNCHANGED <<chan, reg, iter, invoked, serverSubs>>
    /\ UNCHANGED consumers

\* the callback that forEach called throws: forEach and handleMessage are
\* left, the catch of onmessage (websocket.ts:40) logs the exception
CallbackThrow ==
    /\ pc = "callback"
    /\ pc' = "done"
    /\ iter' = [iter EXCEPT !.threw = TRUE]
    /\ out' = <<>>
    /\ UNCHANGED <<chan, reg, invoked, serverSubs>>
    /\ UNCHANGED consumers

\* onmessage returns to the event loop
HandlerReturn ==
    /\ pc = "done"
    /\ pc' = "idle"
    /\ iter' = NoIter
    /\ invoked' = <<>>
    /\ out' = <<>>
    /\ UNCHANGED <<chan, reg, serverSubs>>
    /\ UNCHANGED consumers

(* ------------------------- PipelineProgress --------------------------- *)
\* Array.prototype.some / every over the status fields of the stages
SomeStage(stages, st) == \E i \in DOMAIN stages : stages[i] = st

EveryStage(stages, st) == \A i \in DOMAIN stages : stages[i] = st

\* in-progress is tested before error
getOverallStatusInProgressFirst(ps) ==
    IF ps = NoState THEN "pending"
    ELSE IF SomeStage(ps.stages, "in-progress") THEN "in-progress"
    ELSE IF SomeStage(ps.stages, "error") THEN "error"
    ELSE IF EveryStage(ps.stages, "completed") THEN "completed"
    ELSE "pending"

\* PipelineProgress.tsx:69  getOverallStatus, on the pipelineState ps
getOverallStatus(ps) ==
    IF ps = NoState THEN "pending"
    ELSE IF SomeStage(ps.stages, "error") THEN "error"
    ELSE IF EveryStage(ps.stages, "completed") THEN "completed"
    ELSE IF SomeStage(ps.stages, "in-progress") THEN "in-progress"
    ELSE "pending"

\* the update callback of the component runs with a state whose stages are
\* stages (setPipelineState), and the component renders again
ProgressUpdate(stages) ==
    /\ pc = "idle"
    /\ pipelineState' = [stages |-> stages]
    /\ overallStatus' = getOverallStatus([stages |-> stages])
    /\ onCompleteCalls' = IF EveryStage(stages, "completed") THEN 1 ELSE 0
    /\ UNCHANGED <<chan, reg, disp, serverSubs, out, diffMs, estimatedText,
                   hook, handles>>

\* Math.ceil(a / b) for integers a and b > 0
Ceil(a, b) == -((-a) \div b)

\* PipelineProgress.tsx:53  formatEstimatedCompletion, for a timestamp that
\* lies diff milliseconds after new Date()
formatEstimatedCompletion(diff) ==
    LET diffMins == Ceil(diff, 60000)
    IN  IF diffMins < 1 THEN "Less than a minute"
        ELSE IF diffMins = 1 THEN "1 minute"
        ELSE IF diffMins < 60 THEN ToString(diffMins) \o " minutes"
        ELSE ToString(diffMins \div 60) \o "h " \o ToString(diffMins % 60) \o "m"

\* the component renders a state whose estimatedCompletion lies d
\* milliseconds after the current time
RenderEstimate(d) ==
    /\ pc = "idle"
    /\ diffMs' = d
    /\ estimatedText' = formatEstimatedCompletion(d)
    /\ UNCHANGED <<chan, reg, disp, serverSubs, out, pipelineState, overallStatus,
                   onCompleteCalls, hook, handles>>

(* ---------------------------- usePipeline ----------------------------- *)
\* the update callback and the error callback the effect of the hook hands
\* to the service.  The effect makes a new update callback each time it runs,
\* after its cleanup has removed the one before, so one name stands for them
HookCallback == "c1"

HookErrorCallback == "e1"

\* the status fields of a stages array
StatusesOf(stages) == [i \in DOMAIN stages |-> stages[i].status]

\* usePipeline.ts:63  state.stages.every(s => s.status === 'completed')
AllCompleted(st) == \A i \in DOMAIN st.stages : st.stages[i].status = "completed"

\* true when the last stage is completed
isCompleteLastStage(ps) ==
    IF ps = NoState THEN FALSE
    ELSE Len(ps.stages) > 0 /\ ps.stages[Len(ps.stages)].status = "completed"

\* usePipeline.ts:87  isComplete
isComplete(ps) == IF ps = NoState THEN FALSE ELSE AllCompleted(ps)

\* usePipeline.ts:91  hasError
hasError(ps) ==
    IF ps = NoState THEN FALSE
    ELSE \E i \in DOMAIN ps.stages : ps.stages[i].status = "error"

\* usePipeline.ts:71  state.stages.find(s => s.status === 'error'), for a
\* state that has a stage in error
errorStage(st) ==
    st.stages[CHOOSE i \in DOMAIN st.stages :
                  /\ st.stages[i].status = "error"
                  /\ \A j \in 1..(i - 1) : st.stages[j].status # "error"]

\* usePipeline.ts:70-72  handleError is called for the update st: it has a
\* stage in error, and the first such stage has an error text
StageErrorForwarded(st) == hasError(st) /\ errorStage(st).error # Undefined

\* onComplete is called only when the state before was not complete
OnCompleteCallsOnChange(st) ==
    IF AllCompleted(st) /\ ~isComplete(hookPipelineState) THEN 1 ELSE 0

\* usePipeline.ts:63-66  the calls of onComplete the update callback makes
\* for the update st
OnCompleteCallsFor(st) == IF AllCompleted(st) THEN 1 ELSE 0

\* the Set a Map holds for p, empty when it has no entry
EntryOf(map, p) == IF p \in DOMAIN map THEN map[p] ELSE <<>>

\* websocket.ts:96-100  the Map after subscribe(p, c)
MapSubscribed(map, p, c) ==
    [q \in DOMAIN map \cup {p} |-> IF q = p THEN SetAdd(EntryOf(map, p), c) ELSE map[q]]

\* websocket.ts:112-116  the Map after the closure of subscribe(p, c)
MapUnsubscribed(map, p, c) ==
    IF p \notin DOMAIN map THEN map
    ELSE IF Len(SetDelete(map[p], c)) = 0
         THEN [q \in DOMAIN map \ {p} |-> map[q]]
         ELSE [map EXCEPT ![p] = SetDelete(map[p], c)]

\* websocket.ts:115-124  the frames the closure of subscribe(p, c) writes
UnsubscribeFrames(p, c) ==
    IF p \in DOMAIN subscribers /\ UnsubscribeDrops(p, c)
    THEN Send("unsubscribe", p)
    ELSE <<>>

\* what the peer holds once it has read the frames fs, one after the other
ServerApplyAll(tbl, fs) ==
    IF Len(fs) <= 1 THEN ServerApply(tbl, fs)
    ELSE ServerApply(ServerApply(tbl, <<fs[1]>>), <<fs[2]>>)

\* usePipeline.ts:54-85  the effect runs with pipelineId p: on mount, and when
\* pipelineId or one of the consumer's callbacks has changed.  The cleanup of
\* the run before comes first (unsubscribe, unsubscribeError), then
\* setIsConnected, subscribe and onError
HookEffect(p) ==
    /\ pc = "idle"
    /\ LET old == hookPipelineId
           mounted == old # NoPipeline
           cleaned == IF mounted
                      THEN MapUnsubscribed(subscribers, old, HookCallback)
                      ELSE subscribers
           errors == IF mounted
                     THEN SetDelete(errorSubscribers, HookErrorCallback)
                     ELSE errorSubscribers
           frames == (IF mounted THEN UnsubscribeFrames(old, HookCallback) ELSE <<>>)
                         \o Send("subscribe", p)
       IN  /\ subscribers' = MapSubscribed(cleaned, p, HookCallback)
           /\ errorSubscribers' = SetAdd(errors, HookErrorCallback)
           /\ out' = frames
           /\ serverSubs' = IF frames = <<>> THEN serverSubs
                            ELSE [serverSubs EXCEPT ![ws] = ServerApplyAll(@, frames)]
    /\ hookPipelineId' = p
    /\ hookIsConnected' = isConnected
    /\ hookCalls' = NoCalls
    /\ UNCHANGED <<chan, disp, ui, handles, hookPipelineState, hookError, hookErrorId>>

\* usePipeline.ts:81-84  the component that uses the hook unmounts: the
\* cleanup runs and the state of the hook is gone
HookUnmount ==
    /\ pc = "idle"
    /\ hookPipelineId # NoPipeline
    /\ subscribers' = MapUnsubscribed(subscribers, hookPipelineId, HookCallback)
    /\ errorSubscribers' = SetDelete(errorSubscribers, HookErrorCallback)
    /\ Written(UnsubscribeFrames(hookPipelineId, HookCallback))
    /\ hookPipelineId' = NoPipeline
    /\ hookPipelineState' = NoState
    /\ hookError' = NoError
    /\ hookIsConnected' = FALSE
    /\ hookErrorId' = NoPipeline
    /\ hookCalls' = NoCalls
    /\ UNCHANGED <<chan, disp, ui, handles>>

\* usePipeline.ts:59-76  socket s delivers a pipeline_update with data st and
\* handleMessage calls the update callback of the hook, registered under
\* st.id.  onComplete and onError are the callbacks of the consumer
HookUpdate(s, st) ==
    /\ pc = "idle"
    /\ readyState[s] = "OPEN"
    /\ HookCallback \in Range(EntryOf(subscribers, st.id))
    /\ hookPipelineState' = st
    /\ hookError' = IF StageErrorForwarded(st) THEN errorStage(st).error ELSE hookError
    /\ hookErrorId' = IF StageErrorForwarded(st) THEN hookPipelineId ELSE hookErrorId
    /\ hookCalls' = [kind |-> "update",
                     complete |-> OnCompleteCallsFor(st),
                     error |-> IF StageErrorForwarded(st)
                               THEN <<errorStage(st).error>> ELSE <<>>,
                     text |-> Undefined,
                     wasComplete |-> isComplete(hookPipelineState)]
    /\ out' = <<>>
    /\ UNCHANGED <<chan, reg, disp, serverSubs, ui, handles, hookPipelineId,
                   hookIsConnected>>

\* usePipeline.ts:47-52 and :79  socket s delivers a pipeline_error with error
\* text t and handleMessage calls handleError
HookErrorMessage(s, t) ==
    /\ pc = "idle"
    /\ readyState[s] = "OPEN"
    /\ HookErrorCallback \in Range(errorSubscribers)
    /\ hookError' = t
    /\ hookErrorId' = hookPipelineId
    /\ hookCalls' = [kind |-> "error", complete |-> 0, error |-> <<t>>, text |-> t,
                     wasComplete |-> FALSE]
    /\ out' = <<>>
    /\ UNCHANGED <<chan, reg, disp, serverSubs, ui, handles, hookPipelineId,
                   hookPipelineState, hookIsConnected>>

(* --------------------------- specification ---------------------------- *)
Next ==
    \/ Connect
    \/ Disconnect
    \/ \E d \in DelayValues : TimerFire(d)
    \/ \E s \in SocketIds : OnOpen(s)
    \/ \E s \in SocketIds : SocketFail(s)
    \/ \E s \in SocketIds : OnClose(s)
    \/ \E s \in SocketIds : ClosingHandshake(s)
    \/ \E p \in PipelineIds, c \in Callbacks : Subscribe(p, c)
    \/ \E p \in PipelineIds, c \in Callbacks : Unsubscribe(p, c)
    \/ \E e \in ErrorCallbacks : OnError(e)
    \/ \E e \in ErrorCallbacks : UnsubscribeError(e)
    \/ \E s \in SocketIds, m \in Messages : OnMessage(s, m)
    \/ ForEachStep
    \/ CallbackReturn
    \/ CallbackThrow
    \/ HandlerReturn
    \/ \E stages \in StageLists : ProgressUpdate(stages)
    \/ \E d \in DiffValues : RenderEstimate(d)
    \/ \E p \in PipelineIds, c \in Callbacks : SubscribeHandle(p, c)
    \/ \E i \in 1..MaxHandles : CallHandle(i)
    \/ \E p \in PipelineIds : HookEffect(p)
    \/ HookUnmount
    \/ \E s \in SocketIds, st \in HookStates : HookUpdate(s, st)
    \/ \E s \in SocketIds, t \in ErrorTexts : HookErrorMessage(s, t)

Spec == Init /\ [][Next]_vars

NextChannel ==
    \/ Connect
    \/ Disconnect
    \/ \E d \in DelayValues : TimerFire(d)
    \/ \E s \in SocketIds : OnOpen(s)
    \/ \E s \in SocketIds : SocketFail(s)
    \/ \E s \in SocketIds : OnClose(s)
    \/ \E s \in SocketIds : ClosingHandshake(s)

SpecChannel == Init /\ [][NextChannel]_vars

\* the channel with its events delivered: a pending timer fires, a connecting
\* socket gets its open or its close event, a closing socket its close event
EventsDelivered ==
    /\ WF_vars(\E d \in DelayValues : TimerFire(d))
    /\ \A s \in SocketIds :
          /\ WF_vars(readyState[s] = "CONNECTING" /\ (OnOpen(s) \/ SocketFail(s)))
          /\ WF_vars(readyState[s] = "CLOSING" /\ OnClose(s))

\* sockets and timers the channel has outstanding
InUse == Cardinality({s \in SocketIds : readyState[s] # "FREE"}) + BagCardinality(timers)

\* connect() called by the application, as long as the sockets of the model
\* suffice for every timer that is pending to fire
RecoveryConnect == InUse < MaxSockets /\ Connect

NextRecovery ==
    \/ RecoveryConnect
    \/ Disconnect
    \/ \E d \in DelayValues : TimerFire(d)
    \/ \E s \in SocketIds : OnOpen(s)
    \/ \E s \in SocketIds : SocketFail(s)
    \/ \E s \in SocketIds : OnClose(s)
    \/ \E s \in SocketIds : ClosingHandshake(s)

SpecRecovery == Init /\ [][NextRecovery]_vars /\ EventsDelivered

InitRegistry == Init /\ baseUrlValid

NextRegistry ==
    \/ Connect
    \/ Disconnect
    \/ \E d \in DelayValues : TimerFire(d)
    \/ \E s \in SocketIds : OnOpen(s)
    \/ \E s \in SocketIds : OnClose(s)
    \/ \E p \in PipelineIds, c \in Callbacks : Subscribe(p, c)
    \/ \E p \in PipelineIds, c \in Callbacks : Unsubscribe(p, c)

SpecRegistry == InitRegistry /\ [][NextRegistry]_vars

\* message handling, from the state that connect() and the open event of the
\* first socket lead to from construction
InitDispatch ==
    /\ baseUrlValid = TRUE
    /\ ws = 1
    /\ readyState = [s \in SocketIds |-> IF s = 1 THEN "OPEN" ELSE "FREE"]
    /\ reconnectAttempts = 0
    /\ reconnectDelay = InitialReconnectDelay
    /\ isConnecting = FALSE
    /\ shouldReconnect = TRUE
    /\ timers = EmptyBag
    /\ subscribers = EmptyMap
    /\ errorSubscribers = <<>>
    /\ serverSubs = [s \in SocketIds |-> {}]
    /\ out = <<>>
    /\ pc = "idle"
    /\ iter = NoIter
    /\ invoked = <<>>
    /\ delayLog = <<>>
    /\ abandoned = FALSE
    /\ pipelineState = NoState
    /\ overallStatus = "pending"
    /\ onCompleteCalls = 0
    /\ diffMs = 0
    /\ estimatedText = "null"
    /\ handles = <<>>
    /\ hookPipelineId = NoPipeline
    /\ hookPipelineState = NoState
    /\ hookError = NoError
    /\ hookIsConnected = FALSE
    /\ hookErrorId = NoPipeline
    /\ hookCalls = NoCalls

NextDispatch ==
    \/ Disconnect
    \/ \E p \in PipelineIds, c \in Callbacks : Subscribe(p, c)
    \/ \E p \in PipelineIds, c \in Callbacks : Unsubscribe(p, c)
    \/ \E e \in ErrorCallbacks : OnError(e)
    \/ \E e \in ErrorCallbacks : UnsubscribeError(e)
    \/ \E s \in SocketIds, m \in Messages : OnMessage(s, m)
    \/ ForEachStep
    \/ CallbackReturn
    \/ CallbackThrow
    \/ HandlerReturn

SpecDispatch == InitDispatch /\ [][NextDispatch]_vars

\* consumers that keep their closures, on a connection that comes and goes
NextHandles ==
    \/ \E p \in PipelineIds, c \in Callbacks : SubscribeHandle(p, c)
    \/ \E i \in 1..MaxHandles : CallHandle(i)
    \/ \E s \in SocketIds : OnClose(s)
    \/ Connect
    \/ \E s \in SocketIds : OnOpen(s)

SpecHandles == InitDispatch /\ [][NextHandles]_vars

\* the component on its own: every update it can be given, in any order
NextProgress == \E stages \in StageLists : ProgressUpdate(stages)

SpecProgress == Init /\ [][NextProgress]_vars

\* the hook as the only consumer of the service, on an open connection
NextFacade ==
    \/ \E p \in PipelineIds : HookEffect(p)
    \/ HookUnmount
    \/ \E s \in SocketIds, st \in HookStates : HookUpdate(s, st)
    \/ \E s \in SocketIds, t \in ErrorTexts : HookErrorMessage(s, t)

SpecFacade == InitDispatch /\ [][NextFacade]_vars

\* the updates of a pipeline that has one stage, or none yet
HookSnapshots == {st \in HookStates : Len(st.stages) <= 1}

\* the hook as the only consumer of the service, on a connection that comes
\* and goes
NextFacadeChannel ==
    \/ \E p \in PipelineIds : HookEffect(p)
    \/ HookUnmount
    \/ \E s \in SocketIds, st \in HookSnapshots : HookUpdate(s, st)
    \/ Connect
    \/ \E s \in SocketIds : OnOpen(s)
    \/ \E s \in SocketIds : OnClose(s)
    \/ \E d \in DelayValues : TimerFire(d)

SpecFacadeChannel == InitRegistry /\ [][NextFacadeChannel]_vars

\* the time-remaining text on its own, for every delta of the model
NextEstimate == \E d \in DiffValues : RenderEstimate(d)

SpecEstimate == Init /\ [][NextEstimate]_vars

TypeOK ==
    /\ baseUrlValid \in BOOLEAN
    /\ ws \in SocketIds \cup {Null}
    /\ readyState \in [SocketIds -> {"FREE", "CONNECTING", "OPEN", "CLOSING"}]
    /\ reconnectAttempts \in 0..MaxAttempts
    /\ isConnecting \in BOOLEAN
    /\ shouldReconnect \in BOOLEAN
    /\ abandoned \in BOOLEAN
    /\ DOMAIN subscribers \subseteq PipelineIds
    /\ pc \in {"idle", "forEach", "callback", "done"}

(* ====================== properties of the channel ====================== *)
IsPrefix(s, t) == Len(s) <= Len(t) /\ \A i \in 1..Len(s) : s[i] = t[i]

LiveSockets == {s \in SocketIds : Live(s)}

\* a step of this kind creates a WebSocket object
SocketCreated == \E s \in SocketIds : readyState[s] = "FREE" /\ readyState'[s] = "CONNECTING"

\* a step of this kind schedules a reconnect timer
TimerScheduled == delayLog' # delayLog /\ delayLog' # <<>>

BackoffSequence == <<1000, 2000, 4000, 8000, 16000>>

\* every attempt so far has failed and the last of the five reconnects is over
Exhausted ==
    /\ delayLog = BackoffSequence
    /\ timers = EmptyBag
    /\ ws = Null
    /\ ~isConnecting

\* C1: with a URL the WebSocket constructor accepts, the delays scheduled for
\* consecutive failed attempts are 1000, 2000, 4000, 8000, 16000 ms in that
\* order; after the fifth reconnect has failed no timer is scheduled any more
\* and the channel leaves Disconnected only by an explicit connect().
C1_BackoffSequence ==
    /\ [](baseUrlValid => IsPrefix(delayLog, BackoffSequence))
    /\ [][(baseUrlValid /\ Len(delayLog) = 5) => ~TimerScheduled]_vars
    /\ [][(baseUrlValid /\ Exhausted /\ ~Connect) => (ws' = Null /\ ~isConnected')]_vars

C1_Witness ==
    /\ baseUrlValid
    /\ Exhausted
    /\ reconnectAttempts = maxReconnectAttempts
    /\ shouldReconnect
    /\ LiveSockets = {}

\* C2: the reconnect counter never exceeds 5 and no reconnect timer is
\* scheduled once it has reached 5, on the close path and on the catch path.
C2_AttemptsCapped ==
    /\ [](reconnectAttempts <= maxReconnectAttempts)
    /\ [][reconnectAttempts >= maxReconnectAttempts => ~TimerScheduled]_vars

\* C3: at most one connection made by the channel is connecting or open.
C3_SingleLiveConnection == Cardinality(LiveSockets) <= 1

\* C4: once disconnect() has been called, only an explicit connect() makes a
\* connection; a reconnect timer that was pending at disconnect() makes none.
C4_TeardownStopsReconnect ==
    [][(~shouldReconnect /\ SocketCreated) => Connect]_vars

(* ===================== properties of the registry ====================== *)
\* a step of this kind is a subscribe call or a call of an unsubscribe closure
RegistryCall ==
    \E p \in PipelineIds, c \in Callbacks : Subscribe(p, c) \/ Unsubscribe(p, c)

\* the callbacks the Map holds for p
Registered(p) == IF p \in DOMAIN subscribers THEN Range(subscribers[p]) ELSE {}

\* C5: a control frame is written only by a subscribe or unsubscribe call made
\* while the connection is open, and it goes to that connection; a call made
\* while the channel is not connected writes nothing, and no other step ever
\* writes a frame on its behalf.
C5_FramesOnlyWhileConnected ==
    /\ [][(out' # <<>>) => (WsOpen /\ isConnected' /\ ws' = ws /\ RegistryCall)]_vars
    /\ [][(~WsOpen /\ RegistryCall) => (out' = <<>> /\ serverSubs' = serverSubs)]_vars
    /\ [](\A s \in SocketIds : serverSubs[s] # {} => readyState[s] = "OPEN")

C5_Witness ==
    /\ out = <<Frame("subscribe", "p1")>>
    /\ isConnected
    /\ "p1" \in serverSubs[ws]

\* C6: a subscribe made while the channel is not connected registers the
\* callback and writes no frame, and the open event writes none either: after
\* the open the peer holds a pipeline id only through a subscribe call made
\* while connected.
C6_NoReplayOnOpen ==
    /\ [][\A p \in PipelineIds, c \in Callbacks : (~WsOpen /\ Subscribe(p, c)) =>
             (c \in Registered(p)' /\ out' = <<>> /\ serverSubs' = serverSubs)]_vars
    /\ [][(\E s \in SocketIds : OnOpen(s)) =>
             (out' = <<>> /\ serverSubs' = serverSubs /\ subscribers' = subscribers)]_vars
    /\ [][\A s \in SocketIds, p \in PipelineIds :
             (p \in serverSubs'[s] /\ p \notin serverSubs[s]) =>
                 (WsOpen /\ ws = s /\ \E c \in Callbacks : Subscribe(p, c))]_vars

C6_Witness ==
    /\ isConnected
    /\ "c1" \in Registered("p1")
    /\ "p1" \notin serverSubs[ws]
    /\ out = <<>>

\* C7: subscribe writes a subscribe frame only for the first registration of
\* a pipeline id; a registration for an id that has a subscriber writes none.
C7_FrameOnFirstRegistrationOnly ==
    [][\A p \in PipelineIds, c \in Callbacks :
          (Subscribe(p, c) /\ Registered(p) # {}) => out' = <<>>]_vars

\* C8: the unsubscribe closure of (p, c) removes c from the Set of p; when that
\* empties the Set the entry is deleted and one unsubscribe frame is written if
\* the connection is open; when callbacks remain the entry is kept and no frame
\* is written.  Entries of other ids are not touched.
C8_UnsubscribeEffect ==
    [][\A p \in PipelineIds, c \in Callbacks : Unsubscribe(p, c) =>
          /\ Registered(p)' = Registered(p) \ {c}
          /\ \A q \in PipelineIds \ {p} : Registered(q)' = Registered(q)
          /\ (p \in DOMAIN subscribers') = (Registered(p) \ {c} # {})
          /\ out' = IF Registered(p) # {} /\ Registered(p) \ {c} = {} /\ WsOpen
                    THEN <<Frame("unsubscribe", p)>>
                    ELSE <<>>]_vars

C8_Witness ==
    /\ out = <<Frame("unsubscribe", "p1")>>
    /\ "p1" \notin DOMAIN subscribers
    /\ Registered("p2") = {"c1", "c2"}
    /\ isConnected

(* ============== further properties of channel and registry ============= *)
\* a step of this kind is the close event of a connection
CloseEvent == \E s \in SocketIds : SocketFail(s) \/ OnClose(s)

\* the service fields a connect() without effect leaves alone
connectFrame == <<ws, readyState, reconnectAttempts, reconnectDelay, isConnecting,
                  shouldReconnect, timers, subscribers, errorSubscribers>>

\* C14: the open event sets the reconnect counter to 0 and the delay base to
\* 1000 ms, so the first reconnect scheduled after an open is delayed by
\* 1000 ms, however many attempts had failed before that open.
C14_OpenResetsBackoff ==
    /\ [][(\E s \in SocketIds : OnOpen(s)) =>
             (reconnectAttempts' = 0 /\ reconnectDelay' = InitialReconnectDelay)]_vars
    /\ [](delayLog # <<>> => delayLog[1] = InitialReconnectDelay)
    /\ [][(reconnectAttempts = 0 /\ TimerScheduled) =>
             BagIn(InitialReconnectDelay, timers')]_vars

\* a connection is open and the counter is back at 0, while the 2000 ms timer
\* that was scheduled when the counter went to 2 is still pending
C14_Witness ==
    /\ \E s \in SocketIds : readyState[s] = "OPEN"
    /\ reconnectAttempts = 0
    /\ reconnectDelay = InitialReconnectDelay
    /\ delayLog = <<>>
    /\ BagIn(2000, timers)

\* C15: connect() called while a connection of the channel is connecting or
\* open creates no connection and changes no field of the service.
C15_ConnectIdempotent ==
    [][(Connect /\ (isConnecting \/ LiveSockets # {})) => UNCHANGED connectFrame]_vars

\* C16: subscribe for an id without entry, followed at once by the call of the
\* closure it returned, leaves no entry for the id; the subscribe writes a
\* subscribe frame exactly when the connection is open at that call, and the
\* closure an unsubscribe frame exactly when it is open at that call.
C16_SubscribeThenUnsubscribe ==
    /\ [][\A p \in PipelineIds, c \in Callbacks :
             (Subscribe(p, c) /\ p \notin DOMAIN subscribers) =>
                 /\ Registered(p)' = {c}
                 /\ out' = IF WsOpen THEN <<Frame("subscribe", p)>> ELSE <<>>]_vars
    /\ [][\A p \in PipelineIds, c \in Callbacks :
             (Unsubscribe(p, c) /\ Registered(p) = {c}) =>
                 /\ p \notin DOMAIN subscribers'
                 /\ \A q \in PipelineIds \ {p} : Registered(q)' = Registered(q)
                 /\ out' = IF WsOpen THEN <<Frame("unsubscribe", p)>> ELSE <<>>]_vars

C16_Witness ==
    /\ subscribers = EmptyMap
    /\ out = <<Frame("unsubscribe", "p1")>>
    /\ isConnected
    /\ "p1" \notin serverSubs[ws]

\* C17: when disconnect() returns the do-not-reconnect flag is set, no
\* connection of the channel is connecting or open and none is held in ws,
\* both subscriber collections are empty and isConnected() is false; a close
\* event that arrives later schedules no reconnect.
C17_DisconnectEffect ==
    /\ [][Disconnect =>
             /\ ~shouldReconnect'
             /\ ws' = Null
             /\ LiveSockets' = {}
             /\ subscribers' = EmptyMap
             /\ errorSubscribers' = <<>>
             /\ ~isConnected']_vars
    /\ [][(~shouldReconnect /\ CloseEvent) => ~TimerScheduled]_vars

\* C18: once onclose has given up reconnecting, isConnected() is false until
\* connect() is called again, and giving up invokes no callback.
C18_AbandonedStaysDisconnected ==
    /\ [](abandoned => ~isConnected)
    /\ [][(~abandoned /\ abandoned') => UNCHANGED <<reg, disp>>]_vars

\* the endpoint has accepted a connection of the channel (its open event has
\* reset the counter) and no reconnect has been scheduled since
Accepted ==
    /\ shouldReconnect
    /\ reconnectAttempts = 0
    /\ \E s \in SocketIds : readyState[s] = "OPEN"

\* C19: while the channel is not torn down, a reconnect that onclose has
\* scheduled is eventually attempted, and once the endpoint has accepted a
\* connection the channel is eventually connected (isConnected() is true).
C19_RecoversFromTransportFailure ==
    /\ (shouldReconnect /\ baseUrlValid /\ timers # EmptyBag) ~>
           (timers = EmptyBag \/ ~shouldReconnect)
    /\ Accepted ~> (isConnected \/ ~shouldReconnect)

\* C29: while a connection made by the channel is open, isConnected() is
\* true; the close event of a connection that ws no longer refers to leaves
\* ws and isConnecting as they are.
C29_IsConnectedTracksLive ==
    /\ []((\E s \in SocketIds : readyState[s] = "OPEN") => isConnected)
    /\ [][\A s \in SocketIds :
             ((SocketFail(s) \/ OnClose(s)) /\ ws # Null /\ ws # s) =>
                 (ws' = ws /\ isConnecting' = isConnecting)]_vars

(* ====================== properties of the dispatch ===================== *)
\* the callbacks invoked so far for the message being handled
InvokedCallbacks == {invoked[i].cb : i \in 1..Len(invoked)}

UpdateDispatch == pc # "idle" /\ iter.kind = "pipeline_update"

ErrorDispatch == pc # "idle" /\ iter.kind = "pipeline_error"

\* C9: a pipeline_update for P invokes only callbacks of the Set of P (those
\* in it at receipt or added to it since), each with the state of the message,
\* and none that is registered under another id only.  With no entry for P the
\* message is dropped: nothing is invoked, nothing is raised, and the registry
\* and the connection are as before.
C9_UpdateRouting ==
    /\ [](UpdateDispatch =>
            /\ iter.arg.id = iter.pid
            /\ InvokedCallbacks \subseteq iter.known
            /\ \A i \in 1..Len(invoked) : invoked[i].arg = iter.arg
            /\ (pc = "done" /\ iter.known = {}) => (invoked = <<>> /\ ~iter.threw))
    /\ [][(pc = "idle" /\ iter'.kind = "pipeline_update" /\ Registered(iter'.pid) = {}) =>
             (pc' = "done" /\ invoked' = <<>> /\ UNCHANGED <<chan, reg>>)]_vars

C9_Witness ==
    /\ pc = "done"
    /\ iter.kind = "pipeline_update"
    /\ iter.pid = "p1"
    /\ InvokedCallbacks = {"c1"}
    /\ Registered("p1") = {"c1"}
    /\ Registered("p2") = {"c2"}

\* C10: a pipeline_error invokes error callbacks only, each with the error
\* text of the message, and once the message is handled every registered error
\* callback has been invoked, whatever the pipelineId of the message and also
\* when no update callback is registered for it.
C10_ErrorBroadcast ==
    ErrorDispatch =>
        /\ iter.arg.error \in ErrorTexts
        /\ InvokedCallbacks \subseteq ErrorCallbacks \cap iter.known
        /\ \A i \in 1..Len(invoked) : invoked[i].arg = iter.arg
        /\ pc = "done" => Range(errorSubscribers) \subseteq InvokedCallbacks

\* the broadcast is complete whenever no callback has thrown: an exception of
\* a callback is the only way for a registered error callback to be left out
ErrorBroadcastUnlessThrown ==
    (ErrorDispatch /\ pc = "done" /\ ~iter.threw) =>
        Range(errorSubscribers) \subseteq InvokedCallbacks

\* the same for the callbacks of the Set that an update was dispatched to
UpdateBroadcastUnlessThrown ==
    (UpdateDispatch /\ pc = "done" /\ ~iter.threw /\ iter.attached) =>
        Registered(iter.pid) \subseteq InvokedCallbacks

\* C11: for one received message no callback is invoked more than once, also
\* when the callbacks that run call subscribe or an unsubscribe closure.
C11_AtMostOncePerMessage ==
    \A i, j \in 1..Len(invoked) : invoked[i].cb = invoked[j].cb => i = j

\* C12: the unsubscribe closure of (p, c) has removed c from the Set of p when
\* it returns, and only subscribe(p, c) puts it back.  An update handles the
\* callbacks that are in the Set of its id when it is received, or that
\* subscribe adds to it meanwhile: a callback that was removed before and has
\* not been registered again is not invoked for it.
C12_UnsubscribeSynchronous ==
    /\ [][\A p \in PipelineIds, c \in Callbacks :
             Unsubscribe(p, c) => c \notin Registered(p)']_vars
    /\ [][\A p \in PipelineIds, c \in Callbacks :
             (c \notin Registered(p) /\ c \in Registered(p)') => Subscribe(p, c)]_vars
    /\ [][(pc = "idle" /\ iter'.kind = "pipeline_update") =>
             iter'.known = Registered(iter'.pid)]_vars
    /\ [][\A c \in Callbacks :
             (UpdateDispatch /\ c \in iter'.known /\ c \notin iter.known) =>
                 Subscribe(iter.pid, c)]_vars
    /\ [](UpdateDispatch => InvokedCallbacks \subseteq iter.known)

\* c2 was in the Set when the update came in, c1 has removed it since, and the
\* update has been handled without a call of c2
C12_Witness ==
    /\ pc = "done"
    /\ iter.kind = "pipeline_update"
    /\ iter.pid = "p1"
    /\ iter.attached
    /\ ~iter.threw
    /\ iter.known = {"c1", "c2"}
    /\ Registered("p1") = {"c1"}
    /\ InvokedCallbacks = {"c1"}

\* C13: a payload that fails to parse is dropped: no callback is invoked for
\* it, the connection, the reconnect counter and the registry stay as they
\* are, and the handler returns so that the next message is received.
C13_MalformedDropped ==
    /\ [][\A s \in SocketIds : OnMessage(s, [type |-> "malformed"]) =>
             (pc' = "done" /\ invoked' = <<>> /\ UNCHANGED <<chan, reg, serverSubs>>)]_vars
    /\ [](iter.kind = "malformed" => (pc = "done" /\ invoked = <<>> /\ ~iter.threw))
    /\ [][iter.kind = "malformed" =>
             (pc' = "idle" /\ invoked' = <<>> /\ UNCHANGED <<chan, reg, serverSubs>>)]_vars
    /\ [](pc = "idle" =>
            \A s \in SocketIds, m \in Messages :
                readyState[s] = "OPEN" => ENABLED OnMessage(s, m))

C13_Witness ==
    /\ iter.kind = "malformed"
    /\ pc = "done"
    /\ Registered("p1") = {"c1"}
    /\ Range(errorSubscribers) = {"e1"}
    /\ isConnected

\* the registrations of the callback of handles[i] under its id, other than
\* the one of handles[i], whose closures have not been called
OtherRegistrations(i) ==
    {j \in DOMAIN handles \ {i} :
        /\ handles[j].pid = handles[i].pid
        /\ handles[j].cb = handles[i].cb
        /\ ~handles[j].called}

\* C27: the closure of one registration leaves every other registration in
\* place: a callback stays registered under an id as long as the closure of
\* one of its subscribe calls for that id has not been called, and a closure
\* called while such another registration exists writes no frame.
C27_CapabilityScoped ==
    /\ [](\A i \in DOMAIN handles :
             ~handles[i].called => handles[i].cb \in Registered(handles[i].pid))
    /\ [][\A i \in 1..MaxHandles :
             (CallHandle(i) /\ OtherRegistrations(i) # {}) => out' = <<>>]_vars

\* C28: a callback that throws during the dispatch of a pipeline_update or a
\* pipeline_error does not keep the others from being invoked: when the
\* handler is done, every callback of the Set the message went to has been
\* invoked for it.
C28_ThrowIsolated ==
    (pc = "done" /\ iter.threw) => Range(IterData) \subseteq InvokedCallbacks

\* C26: every pipeline id in the Map has a Set with at least one callback in
\* it, so the Map has an entry for an id exactly when a callback is registered
\* under it.
C26_NoEmptyEntry ==
    \A p \in PipelineIds :
        /\ p \in DOMAIN subscribers => Len(subscribers[p]) > 0
        /\ p \in DOMAIN subscribers <=> Registered(p) # {}

\* the last callback of p2 has been removed by its closure, in the middle of
\* the dispatch of an update for p2, while p1 keeps its two callbacks
C26_Witness ==
    /\ pc = "callback"
    /\ iter.kind = "pipeline_update"
    /\ iter.pid = "p2"
    /\ ~iter.attached
    /\ DOMAIN subscribers = {"p1"}
    /\ Len(subscribers["p1"]) = 2

(* ===================== properties of the component ===================== *)
\* C20: the overallStatus rendered for a PipelineState is error when a stage
\* is error; else completed when every stage is completed; else in-progress
\* when a stage is in-progress; else pending.  One error stage gives error
\* whatever the other stages are.
C20_OverallStatusPrecedence ==
    pipelineState # NoState =>
        LET stages == pipelineState.stages
            anyError == \E i \in DOMAIN stages : stages[i] = "error"
            allCompleted == \A i \in DOMAIN stages : stages[i] = "completed"
            anyInProgress == \E i \in DOMAIN stages : stages[i] = "in-progress"
        IN  /\ anyError => overallStatus = "error"
            /\ (~anyError /\ allCompleted) => overallStatus = "completed"
            /\ (~anyError /\ ~allCompleted /\ anyInProgress) =>
                   overallStatus = "in-progress"
            /\ (~anyError /\ ~allCompleted /\ ~anyInProgress) =>
                   overallStatus = "pending"

C20_Witness ==
    /\ pipelineState # NoState
    /\ pipelineState.stages = <<"completed", "in-progress", "error", "completed">>
    /\ overallStatus = "error"

\* the text for a delta of n whole minutes, n >= 1
BucketText(n) ==
    IF n = 1 THEN "1 minute"
    ELSE IF n < 60 THEN ToString(n) \o " minutes"
    ELSE ToString(n \div 60) \o "h " \o ToString(n % 60) \o "m"

\* C25: the text is "Less than a minute" for a delta that is not positive or
\* is shorter than one minute, "1 minute" for a delta of exactly one minute,
\* "N minutes" for a delta of N whole minutes, N in 2..59, and hours and
\* minutes from 60 minutes on; a delta between two whole minutes gets the
\* text of one of the two.
C25_TimeRemainingText ==
    estimatedText # "null" =>
        /\ diffMs < 60000 => estimatedText = "Less than a minute"
        /\ diffMs >= 60000 =>
              estimatedText \in {BucketText(diffMs \div 60000),
                                 BucketText(Ceil(diffMs, 60000))}

\* the onComplete calls of the component: one for an update whose stages are
\* all completed, none for another
ProgressOnCompletePerUpdate ==
    pipelineState # NoState =>
        onCompleteCalls = IF \A i \in DOMAIN pipelineState.stages :
                                 pipelineState.stages[i] = "completed"
                          THEN 1 ELSE 0

(* ======================= properties of the hook ======================== *)
\* C21: isComplete is true exactly when a state is present and every stage
\* of it is completed, hasError exactly when a state is present and a stage of
\* it is error; when every stage is completed, overallStatus is completed and
\* isComplete is true.
C21_DerivedFlags ==
    LET ps == hookPipelineState
        present == ps # NoState
    IN  /\ isComplete(ps) <=>
              (present /\ \A i \in DOMAIN ps.stages : ps.stages[i].status = "completed")
        /\ hasError(ps) <=>
              (present /\ \E i \in DOMAIN ps.stages : ps.stages[i].status = "error")
        /\ (present /\ \A i \in DOMAIN ps.stages : ps.stages[i].status = "completed") =>
              /\ getOverallStatus([stages |-> StatusesOf(ps.stages)]) = "completed"
              /\ isComplete(ps)

C21_Witness ==
    /\ hookPipelineState # NoState
    /\ StatusesOf(hookPipelineState.stages) = <<"completed", "completed">>
    /\ isComplete(hookPipelineState)
    /\ ~hasError(hookPipelineState)

\* C22: the update callback calls onComplete once for an update whose stages
\* are all completed and not at all for another update, whatever the state
\* before was: two complete updates in a row give two calls.
C22_OnCompletePerUpdate ==
    /\ hookCalls.kind = "update" =>
          hookCalls.complete =
              IF \A i \in DOMAIN hookPipelineState.stages :
                     hookPipelineState.stages[i].status = "completed"
              THEN 1 ELSE 0
    /\ hookCalls.kind # "update" => hookCalls.complete = 0

\* the second of two complete updates in a row has called onComplete
C22_Witness ==
    /\ hookCalls.kind = "update"
    /\ hookCalls.wasComplete
    /\ hookCalls.complete = 1
    /\ StatusesOf(hookPipelineState.stages) = <<"completed", "completed">>

\* C23: an update with a stage in error calls onError, and sets error, with
\* the error text of the first stage in error; a pipeline_error message calls
\* onError with the error text of the message.
C23_ErrorSurfaced ==
    /\ (hookCalls.kind = "update" /\ hasError(hookPipelineState)) =>
          /\ hookCalls.error = <<errorStage(hookPipelineState).error>>
          /\ hookError = errorStage(hookPipelineState).error
    /\ hookCalls.kind = "error" => hookCalls.error = <<hookCalls.text>>

\* C24: after every update the hook is given, its pipelineState is the state
\* of the message and its isConnected is what isConnected() of the service
\* returns.
C24_ViewRefreshed ==
    [][\A s \in SocketIds, st \in HookSnapshots :
          HookUpdate(s, st) =>
              /\ hookPipelineState' = st
              /\ hookIsConnected' = isConnected']_vars

\* C30: a state the hook holds has the id the hook is subscribed to, and an
\* error it holds was set while it was subscribed to that id, a change of
\* pipelineId included.
C30_StateOfSubscribedId ==
    /\ hookPipelineState # NoState => hookPipelineState.id = hookPipelineId
    /\ hookError # NoError => hookErrorId = hookPipelineId

====
